---------------------------- MODULE Spec2Model ----------------------------
(***************************************************************************)
(* Spectral peak detection and plot coordinate mapping of the vibration    *)
(* FFT dashboard (ChannelChart / VibrationDashboard / VibrationChart).     *)
(*                                                                         *)
(* Numbers.  Magnitudes are JavaScript numbers; here a magnitude is an     *)
(* integer count of 1/2000 g, so 0.1 is 200, 0.001 is 2 and 0.0005 is 1.   *)
(* Frequencies and plot coordinates are exact rationals                    *)
(* <<numerator, denominator>> in lowest terms with a positive denominator; *)
(* a division by zero gives NonFinite (JavaScript's Infinity / NaN), which *)
(* every later operation propagates.  Floating-point rounding is not       *)
(* modelled.  Bin indices are 0-based as in the code: bin i of a series s  *)
(* is s[i + 1].                                                            *)
(***************************************************************************)
EXTENDS Integers, Sequences, FiniteSets, TLC

VARIABLES
    data,          \* the magnitude series (prop `data` / argument magnitudeData)
    samplingFreq,  \* prop samplingFreq of ChannelChart
    fftSize,       \* prop fftSize of ChannelChart
    minHeight,     \* argument minHeight of the last findPeaks call
    minDistance,   \* argument minDistance of the last findPeaks call
    rect,          \* arguments (width, height, padding) of the last generatePath call
    peaks,         \* result of the last findPeaks call
    stats,         \* result of calculateStats in the last render
    path,          \* result of the last direct generatePath call
    areaPath,      \* points of the area-fill path of the last render
    linePath,      \* points of the main line path of the last render
    markers,       \* peak markers drawn by the last render
    cardPeaks,     \* peaks prop of the channel's PeakCard in the last dashboard render
    pc,            \* which operation has completed
    vibrationData, \* dashboard state: the four channel arrays
    loading,       \* dashboard state: loading
    lastUpdate,    \* dashboard state: lastUpdate, <<>> for null
    error,         \* dashboard state: error, <<>> for null
    fetches,       \* the calls of fetchVibrationData, in the order they started
    interval,      \* the timer of useEffect: "none", "running" or "cleared"
    lastSettled    \* the fetch whose catch/finally or success ran last, 0 for none

chartVars == <<data, samplingFreq, fftSize, minHeight, minDistance, rect, peaks,
               stats, path, areaPath, linePath, markers, cardPeaks, pc>>

dashVars == <<vibrationData, loading, lastUpdate, error, fetches, interval,
              lastSettled>>

vars == <<chartVars, dashVars>>

---------------------------------------------------------------------------
(* Bounds of the model. *)

MaxLen == 7            \* longest exhaustively enumerated series
MaxMinDistance == 2    \* largest minDistance argument tried with them
MaxSpikes == 4         \* most spikes in a gap-coded series
MaxComb == 6           \* most spikes in a comb series
MaxCalls == 3          \* most calls made in a row on one array
MaxFetches == 3        \* most fetches started while the dashboard is mounted

(* Program constants. *)

YFloor == 2                    \* 0.001, the floor of yRange
DefaultMinHeight == 200        \* 0.1, default of findPeaks' minHeight
DefaultMinDistance == 5        \* default of findPeaks' minDistance
TopPeaks == 5                  \* slice(0, 5) in findPeaks
MaxMarkers == 3                \* slice(0, 3) of the drawn markers
maxFreq == 60000               \* display ceiling of ChannelChart
SAMPLING_FREQ == 128000        \* dashboard constant
FFT_SIZE == 8192               \* dashboard constant

---------------------------------------------------------------------------
(* Exact arithmetic standing for JavaScript number arithmetic. *)

Abs(n) == IF n < 0 THEN -n ELSE n

RECURSIVE GCD(_, _)
GCD(a, b) == IF b = 0 THEN a ELSE GCD(b, a % b)

NonFinite == <<0, 0>>

IsFinite(r) == r[2] # 0

Norm(n, d) ==
    IF d = 0 THEN NonFinite
    ELSE LET g == GCD(Abs(n), Abs(d))
             s == IF d < 0 THEN -1 ELSE 1
         IN  <<s * (n \div g), s * (d \div g)>>

RInt(n) == <<n, 1>>

RAdd(a, b) ==
    IF ~IsFinite(a) \/ ~IsFinite(b) THEN NonFinite
    ELSE Norm(a[1] * b[2] + b[1] * a[2], a[2] * b[2])

RSub(a, b) ==
    IF ~IsFinite(a) \/ ~IsFinite(b) THEN NonFinite
    ELSE Norm(a[1] * b[2] - b[1] * a[2], a[2] * b[2])

RMul(a, b) ==
    IF ~IsFinite(a) \/ ~IsFinite(b) THEN NonFinite
    ELSE Norm(a[1] * b[1], a[2] * b[2])

RDiv(a, b) ==
    IF ~IsFinite(a) \/ ~IsFinite(b) THEN NonFinite
    ELSE Norm(a[1] * b[2], a[2] * b[1])

\* a > b on finite numbers; any comparison with a non-finite operand is
\* taken as false (NaN).
RGreater(a, b) ==
    IsFinite(a) /\ IsFinite(b) /\ a[1] * b[2] > b[1] * a[2]

Max2(a, b) == IF a >= b THEN a ELSE b

At(s, i) == s[i + 1]

---------------------------------------------------------------------------
(* findPeaks *)

binToFrequency(binIndex, sf, fft) == RDiv(RInt(binIndex * sf), RInt(fft))

\* isPeakLoop with > for >= : an equal neighbour no longer disqualifies
RECURSIVE isPeakLoop_TiesPass(_, _, _, _)
isPeakLoop_TiesPass(magnitudeData, i, j, minDist) ==
    IF j > i + minDist THEN TRUE
    ELSE IF j # i /\ At(magnitudeData, j) > At(magnitudeData, i) THEN FALSE
    ELSE isPeakLoop_TiesPass(magnitudeData, i, j + 1, minDist)

\* the inner loop: for (j = i - minDistance; j <= i + minDistance; j++)
RECURSIVE isPeakLoop(_, _, _, _)
isPeakLoop(magnitudeData, i, j, minDist) ==
    IF j > i + minDist THEN TRUE
    ELSE IF j # i /\ At(magnitudeData, j) >= At(magnitudeData, i) THEN FALSE
    ELSE isPeakLoop(magnitudeData, i, j + 1, minDist)

\* the window of bin i clipped to the series, for the variants below
RECURSIVE clippedPeak(_, _, _, _)
clippedPeak(magnitudeData, i, j, hi) ==
    IF j > hi THEN TRUE
    ELSE IF j # i /\ At(magnitudeData, j) >= At(magnitudeData, i) THEN FALSE
    ELSE clippedPeak(magnitudeData, i, j + 1, hi)

\* findPeaksLoop running over every bin, with the window clipped at the ends
findPeaksLoop_ClippedWindow(magnitudeData, minH, minDist, sf, fft) ==
    LET indices == [k \in 1..Len(magnitudeData) |-> k - 1]
        pushed == SelectSeq(indices, LAMBDA i :
                      /\ ~(At(magnitudeData, i) < minH)
                      /\ clippedPeak(magnitudeData, i,
                                     Max2(0, i - minDist),
                                     -Max2(1 - Len(magnitudeData), -(i + minDist))))
    IN  [k \in 1..Len(pushed) |->
            [binIndex |-> pushed[k],
             frequency |-> binToFrequency(pushed[k], sf, fft),
             magnitude |-> At(magnitudeData, pushed[k])]]

\* findPeaksLoop without the height test `if (current < minHeight) continue`
findPeaksLoop_NoHeightFloor(magnitudeData, minH, minDist, sf, fft) ==
    LET count == Len(magnitudeData) - minDist - minDist
        indices == [k \in 1..(IF count > 0 THEN count ELSE 0) |-> minDist + k - 1]
        pushed == SelectSeq(indices, LAMBDA i :
                      isPeakLoop(magnitudeData, i, i - minDist, minDist))
    IN  [k \in 1..Len(pushed) |->
            [binIndex |-> pushed[k],
             frequency |-> binToFrequency(pushed[k], sf, fft),
             magnitude |-> At(magnitudeData, pushed[k])]]

\* findPeaksLoop stopping one bin early: i < length - minDistance - 1
findPeaksLoop_ShortRange(magnitudeData, minH, minDist, sf, fft) ==
    LET count == Len(magnitudeData) - minDist - minDist - 1
        indices == [k \in 1..(IF count > 0 THEN count ELSE 0) |-> minDist + k - 1]
        pushed == SelectSeq(indices, LAMBDA i :
                      /\ ~(At(magnitudeData, i) < minH)
                      /\ isPeakLoop(magnitudeData, i, i - minDist, minDist))
    IN  [k \in 1..Len(pushed) |->
            [binIndex |-> pushed[k],
             frequency |-> binToFrequency(pushed[k], sf, fft),
             magnitude |-> At(magnitudeData, pushed[k])]]

\* the outer loop: for (i = minDistance; i < length - minDistance; i++),
\* pushing a peak for every i that passes both tests, in ascending i.
\* (Written with SelectSeq over the loop's index values, not by recursion
\* on i, so that series of thousands of bins can be evaluated.)
findPeaksLoop(magnitudeData, minH, minDist, sf, fft) ==
    LET count == Len(magnitudeData) - minDist - minDist
        indices == [k \in 1..(IF count > 0 THEN count ELSE 0) |-> minDist + k - 1]
        pushed == SelectSeq(indices, LAMBDA i :
                      /\ ~(At(magnitudeData, i) < minH)
                      /\ isPeakLoop(magnitudeData, i, i - minDist, minDist))
    IN  [k \in 1..Len(pushed) |->
            [binIndex |-> pushed[k],
             frequency |-> binToFrequency(pushed[k], sf, fft),
             magnitude |-> At(magnitudeData, pushed[k])]]

\* sortByMagnitude leaving the peaks in detection order
sortByMagnitude_Unsorted(ps) == ps

\* insertDesc with > for >= : a later peak goes before its equals
RECURSIVE insertDesc_TiesReversed(_, _)
insertDesc_TiesReversed(sorted, p) ==
    IF sorted = <<>> THEN <<p>>
    ELSE IF Head(sorted).magnitude > p.magnitude
         THEN <<Head(sorted)>> \o insertDesc_TiesReversed(Tail(sorted), p)
         ELSE <<p>> \o sorted

\* Array.prototype.sort with (a, b) => b.magnitude - a.magnitude: a stable
\* sort, descending by magnitude.  insertDesc puts p after every element
\* that is not smaller, so equal magnitudes keep their order.
RECURSIVE insertDesc(_, _)
insertDesc(sorted, p) ==
    IF sorted = <<>> THEN <<p>>
    ELSE IF Head(sorted).magnitude >= p.magnitude
         THEN <<Head(sorted)>> \o insertDesc(Tail(sorted), p)
         ELSE <<p>> \o sorted

RECURSIVE sortByMagnitude(_)
sortByMagnitude(ps) ==
    IF ps = <<>> THEN <<>>
    ELSE insertDesc(sortByMagnitude(SubSeq(ps, 1, Len(ps) - 1)), ps[Len(ps)])

slice(s, from, to) == SubSeq(s, from + 1, IF to < Len(s) THEN to ELSE Len(s))

findPeaks(magnitudeData, minH, minDist, sf, fft) ==
    IF Len(magnitudeData) = 0 THEN <<>>
    ELSE slice(sortByMagnitude(
                   findPeaksLoop(magnitudeData, minH, minDist, sf, fft)),
               0, TopPeaks)

---------------------------------------------------------------------------
(* calculateStats *)

\* Math.min(...data) and Math.max(...data), on a non-empty series
MinOf(s) ==
    CHOOSE m \in {s[k] : k \in DOMAIN s} : \A k \in DOMAIN s : m <= s[k]

MaxOf(s) ==
    CHOOSE m \in {s[k] : k \in DOMAIN s} : \A k \in DOMAIN s : m >= s[k]

\* data.reduce((sum, val) => sum + val, 0) over bins lo..hi (1-based),
\* summed by halves to keep the evaluation shallow on long series
RECURSIVE reduceSum(_, _, _)
reduceSum(s, lo, hi) ==
    IF lo > hi THEN 0
    ELSE IF lo = hi THEN s[lo]
    ELSE LET mid == (lo + hi) \div 2
         IN  reduceSum(s, lo, mid) + reduceSum(s, mid + 1, hi)

\* data.reduce((sum, val) => sum + val * val, 0), likewise
RECURSIVE reduceSquares(_, _, _)
reduceSquares(s, lo, hi) ==
    IF lo > hi THEN 0
    ELSE IF lo = hi THEN s[lo] * s[lo]
    ELSE LET mid == (lo + hi) \div 2
         IN  reduceSquares(s, lo, mid) + reduceSquares(s, mid + 1, hi)

\* calculateStats without the guard for the empty series: Math.min() and
\* Math.max() of nothing are infinite and 0 / 0 is NaN
calculateStats_NoEmptyGuard(d, sf, fft) ==
    IF Len(d) = 0
    THEN [min |-> NonFinite, max |-> NonFinite, avg |-> RDiv(RInt(0), RInt(Len(d))),
          rmsSquared |-> RDiv(RInt(0), RInt(Len(d))), peaks |-> <<>>]
    ELSE [min |-> RInt(MinOf(d)),
          max |-> RInt(MaxOf(d)),
          avg |-> RDiv(RInt(reduceSum(d, 1, Len(d))), RInt(Len(d))),
          rmsSquared |-> RDiv(RInt(reduceSquares(d, 1, Len(d))), RInt(Len(d))),
          peaks |-> findPeaks(d, DefaultMinHeight, DefaultMinDistance, sf, fft)]

\* calculateStats taking the mean of the values for the mean of the squares
calculateStats_RmsOfSum(d, sf, fft) ==
    IF Len(d) = 0
    THEN [min |-> RInt(0), max |-> RInt(0), avg |-> RInt(0), rmsSquared |-> RInt(0),
          peaks |-> <<>>]
    ELSE [min |-> RInt(MinOf(d)),
          max |-> RInt(MaxOf(d)),
          avg |-> RDiv(RInt(reduceSum(d, 1, Len(d))), RInt(Len(d))),
          rmsSquared |-> RDiv(RInt(reduceSum(d, 1, Len(d))), RInt(Len(d))),
          peaks |-> findPeaks(d, DefaultMinHeight, DefaultMinDistance, sf, fft)]

\* min, max and avg are in magnitude units; rms is kept as its square
\* (the mean of the squares, in squared units), the square root being
\* irrational in general.
calculateStats(d, sf, fft) ==
    IF Len(d) = 0
    THEN [min |-> RInt(0), max |-> RInt(0), avg |-> RInt(0), rmsSquared |-> RInt(0),
          peaks |-> <<>>]
    ELSE [min |-> RInt(MinOf(d)),
          max |-> RInt(MaxOf(d)),
          avg |-> RDiv(RInt(reduceSum(d, 1, Len(d))), RInt(Len(d))),
          rmsSquared |-> RDiv(RInt(reduceSquares(d, 1, Len(d))), RInt(Len(d))),
          peaks |-> findPeaks(d, DefaultMinHeight, DefaultMinDistance, sf, fft)]

---------------------------------------------------------------------------
(* The dashboard's own copies: binToFrequency, findPeaks, calculateStats *)

dashboardBinToFrequency(binIndex) ==
    RDiv(RInt(binIndex * SAMPLING_FREQ), RInt(FFT_SIZE))

RECURSIVE dashboardIsPeakLoop(_, _, _, _)
dashboardIsPeakLoop(magnitudeData, i, j, minDist) ==
    IF j > i + minDist THEN TRUE
    ELSE IF j # i /\ At(magnitudeData, j) >= At(magnitudeData, i) THEN FALSE
    ELSE dashboardIsPeakLoop(magnitudeData, i, j + 1, minDist)

\* dashboardFindPeaks keeping the first three peaks, as the markers do
dashboardFindPeaks_TopThree(magnitudeData, minH, minDist) ==
    IF Len(magnitudeData) = 0 THEN <<>>
    ELSE LET count == Len(magnitudeData) - minDist - minDist
             indices == [k \in 1..(IF count > 0 THEN count ELSE 0) |-> minDist + k - 1]
             pushed == SelectSeq(indices, LAMBDA i :
                           /\ ~(At(magnitudeData, i) < minH)
                           /\ dashboardIsPeakLoop(magnitudeData, i, i - minDist, minDist))
             found == [k \in 1..Len(pushed) |->
                          [binIndex |-> pushed[k],
                           frequency |-> dashboardBinToFrequency(pushed[k]),
                           magnitude |-> At(magnitudeData, pushed[k])]]
         IN  slice(sortByMagnitude(found), 0, MaxMarkers)

dashboardFindPeaks(magnitudeData, minH, minDist) ==
    IF Len(magnitudeData) = 0 THEN <<>>
    ELSE LET count == Len(magnitudeData) - minDist - minDist
             indices == [k \in 1..(IF count > 0 THEN count ELSE 0) |-> minDist + k - 1]
             pushed == SelectSeq(indices, LAMBDA i :
                           /\ ~(At(magnitudeData, i) < minH)
                           /\ dashboardIsPeakLoop(magnitudeData, i, i - minDist, minDist))
             found == [k \in 1..Len(pushed) |->
                          [binIndex |-> pushed[k],
                           frequency |-> dashboardBinToFrequency(pushed[k]),
                           magnitude |-> At(magnitudeData, pushed[k])]]
         IN  slice(sortByMagnitude(found), 0, TopPeaks)

dashboardCalculateStats(d) ==
    IF Len(d) = 0
    THEN [min |-> RInt(0), max |-> RInt(0), avg |-> RInt(0), rmsSquared |-> RInt(0),
          peaks |-> <<>>]
    ELSE [min |-> RInt(MinOf(d)),
          max |-> RInt(MaxOf(d)),
          avg |-> RDiv(RInt(reduceSum(d, 1, Len(d))), RInt(Len(d))),
          rmsSquared |-> RDiv(RInt(reduceSquares(d, 1, Len(d))), RInt(Len(d))),
          peaks |-> dashboardFindPeaks(d, DefaultMinHeight, DefaultMinDistance)]

---------------------------------------------------------------------------
(* generatePath of ChannelChart *)

Null == [null |-> TRUE]

\* x = padding.left + (frequency / maxFreq) * plotWidth
xOf(frequency, left, plotWidth, mf) ==
    RAdd(RInt(left), RMul(RDiv(frequency, RInt(mf)), RInt(plotWidth)))

\* yOf dividing by yRange itself, without the 0.001 floor
\* yOf measuring from the top edge, so that larger magnitudes lie lower
yOf_FromTop(magnitude, top, plotHeight, yMin, yRange) ==
    RAdd(RInt(top),
         RMul(RDiv(RInt(magnitude - yMin), RInt(Max2(yRange, YFloor))),
              RInt(plotHeight)))

yOf_NoFloor(magnitude, top, plotHeight, yMin, yRange) ==
    RSub(RInt(top + plotHeight),
         RMul(RDiv(RInt(magnitude - yMin), RInt(yRange)), RInt(plotHeight)))

\* y = padding.top + plotHeight
\*       - ((magnitude - yMin) / Math.max(yRange, 0.001)) * plotHeight
yOf(magnitude, top, plotHeight, yMin, yRange) ==
    RSub(RInt(top + plotHeight),
         RMul(RDiv(RInt(magnitude - yMin), RInt(Max2(yRange, YFloor))),
              RInt(plotHeight)))

\* The points of the returned path string, in order ('' and 'M ' both have
\* no point).  A point is the pair the template `${x},${y}` prints.
generatePath(d, sf, fft, width, height, padding) ==
    IF Len(d) = 0 THEN <<>>
    ELSE LET plotWidth == width - padding.left - padding.right
             plotHeight == height - padding.top - padding.bottom
             yMin == 0
             yMax == IF Len(d) > 0 THEN MaxOf(d) ELSE 1
             yRange == yMax - yMin
             points == [k \in 1..Len(d) |->
                 LET index == k - 1
                     frequency == binToFrequency(index, sf, fft)
                 IN  IF RGreater(frequency, RInt(maxFreq)) THEN Null
                     ELSE [x |-> xOf(frequency, padding.left, plotWidth, maxFreq),
                           y |-> yOf(d[k], padding.top, plotHeight, yMin, yRange)]]
         IN  SelectSeq(points, LAMBDA point : point # Null)

---------------------------------------------------------------------------
(* The arrays a call touches.  A heap holds the caller's array            *)
(* (magnitudeData) and the arrays the call creates: `peaks` of findPeaks, *)
(* `points` of generatePath, and the array the call returns.              *)

NewHeap(d) == [magnitudeData |-> d, peaks |-> <<>>, points |-> <<>>, returned |-> <<>>]

\* receiver.sort(compare) sorts the receiver itself
sortInPlace(heap, receiver) ==
    [heap EXCEPT ![receiver] = sortByMagnitude(heap[receiver])]

RECURSIVE insertNumberDesc(_, _)
insertNumberDesc(sorted, v) ==
    IF sorted = <<>> THEN <<v>>
    ELSE IF Head(sorted) >= v THEN <<Head(sorted)>> \o insertNumberDesc(Tail(sorted), v)
         ELSE <<v>> \o sorted

RECURSIVE sortNumbersDesc(_)
sortNumbersDesc(s) ==
    IF s = <<>> THEN <<>>
    ELSE insertNumberDesc(sortNumbersDesc(SubSeq(s, 1, Len(s) - 1)), s[Len(s)])

\* findPeaksHeap ranking by magnitudeData.sort((a, b) => b - a) on the input
findPeaksHeap_SortsInput(heap, minH, minDist, sf, fft) ==
    IF Len(heap.magnitudeData) = 0 THEN [heap EXCEPT !.returned = <<>>]
    ELSE LET pushed == [heap EXCEPT !.peaks =
                            findPeaksLoop(heap.magnitudeData, minH, minDist, sf, fft)]
             sorted == [sortInPlace(pushed, "peaks") EXCEPT
                            !.magnitudeData = sortNumbersDesc(heap.magnitudeData)]
         IN  [sorted EXCEPT !.returned = slice(sorted.peaks, 0, TopPeaks)]

\* findPeaks: peaks = [], peaks.push(...), peaks.sort(...).slice(0, 5)
findPeaksHeap(heap, minH, minDist, sf, fft) ==
    IF Len(heap.magnitudeData) = 0 THEN [heap EXCEPT !.returned = <<>>]
    ELSE LET pushed == [heap EXCEPT !.peaks =
                            findPeaksLoop(heap.magnitudeData, minH, minDist, sf, fft)]
             sorted == sortInPlace(pushed, "peaks")
         IN  [sorted EXCEPT !.returned = slice(sorted.peaks, 0, TopPeaks)]

\* calculateStats: Math.min(...data), Math.max(...data) and data.reduce read
\* the array; findPeaks(data) is the one call that receives it
calculateStatsHeap(heap, sf, fft) ==
    IF Len(heap.magnitudeData) = 0 THEN heap
    ELSE findPeaksHeap(heap, DefaultMinHeight, DefaultMinDistance, sf, fft)

\* generatePath: data.map(...) and .filter(...) each create a new array
generatePathHeap(heap, sf, fft, width, height, padding) ==
    [heap EXCEPT !.points = generatePath(heap.magnitudeData, sf, fft, width, height, padding)]

---------------------------------------------------------------------------
(* The render of ChannelChart (dashboard chart component) *)

AreaPadding == [top |-> 20, right |-> 40, bottom |-> 50, left |-> 60]
LinePadding == [top |-> 20, right |-> 40, bottom |-> 20, left |-> 60]

\* shownPeaks taking the first three peaks before the frequency filter
shownPeaks_SliceFirst(ps) ==
    SelectSeq(slice(ps, 0, MaxMarkers),
              LAMBDA peak : ~RGreater(peak.frequency, RInt(maxFreq)))

\* stats.peaks.filter(peak => peak.frequency <= maxFreq).slice(0, 3)
shownPeaks(ps) ==
    slice(SelectSeq(ps, LAMBDA peak : ~RGreater(peak.frequency, RInt(maxFreq))),
          0, MaxMarkers)

\* the body of the .map() that draws one marker
markerOf(peak, d) ==
    LET plotWidth == 1200 - 60 - 40
        plotHeight == 300 - 20 - 50
        yMin == 0
        yMax == MaxOf(d)
        yRange == yMax - yMin
    IN  [peak |-> peak,
         x |-> xOf(peak.frequency, 60, plotWidth, maxFreq),
         y |-> yOf(peak.magnitude, 20, plotHeight, yMin, yRange)]

peakMarkers(ps, d) ==
    LET shown == shownPeaks(ps) IN [k \in 1..Len(shown) |-> markerOf(shown[k], d)]

---------------------------------------------------------------------------
(* The standalone chart (VibrationChart and its inner ChannelChart) *)

LegacySamplingFreq == 127940
LegacyFftSize == 4096
LegacyWidth == 700
LegacyHeight == 300
LegacyPadding == [top |-> 40, right |-> 40, bottom |-> 60, left |-> 80]

\* maxFreq = SAMPLING_FREQ / 2, the Nyquist frequency
LegacyMaxFreq == LegacySamplingFreq \div 2

\* generatePath(): every bin gives a point
legacyGeneratePath(d) ==
    IF Len(d) = 0 THEN <<>>
    ELSE LET plotWidth == LegacyWidth - LegacyPadding.left - LegacyPadding.right
             plotHeight == LegacyHeight - LegacyPadding.top - LegacyPadding.bottom
             yMin == 0
             yMax == IF Len(d) > 0 THEN MaxOf(d) ELSE 1
             yRange == yMax - yMin
         IN  [k \in 1..Len(d) |->
                 LET index == k - 1
                     frequency == binToFrequency(index, LegacySamplingFreq, LegacyFftSize)
                 IN  [x |-> xOf(frequency, LegacyPadding.left, plotWidth, LegacyMaxFreq),
                      y |-> yOf(d[k], LegacyPadding.top, plotHeight, yMin, yRange)]]

\* stats.peaks.map(...): one marker for every peak
legacyPeakMarkers(ps, d) ==
    LET plotWidth == LegacyWidth - LegacyPadding.left - LegacyPadding.right
        plotHeight == LegacyHeight - LegacyPadding.top - LegacyPadding.bottom
        yMin == 0
        yMax == IF Len(d) > 0 THEN MaxOf(d) ELSE 1
        yRange == yMax - yMin
    IN  [k \in 1..Len(ps) |->
            [peak |-> ps[k],
             x |-> xOf(ps[k].frequency, LegacyPadding.left, plotWidth, LegacyMaxFreq),
             y |-> yOf(ps[k].magnitude, LegacyPadding.top, plotHeight, yMin, yRange)]]

---------------------------------------------------------------------------
(* Inputs *)

Mags == {0, 200, 400}              \* 0, 0.1, 0.2
MinHeights == {0, 200, 300}        \* 0, 0.1, 0.15
Floors == {0, 400}                 \* 0, 0.2
SpikeMags == {100, 200, 1800}      \* 0.05, 0.1, 0.9
Gaps == {0, DefaultMinDistance}

\* [0, 0.05, 0.2, 0.9, 0.2, 0.05, 0, 0.05, 0.15, 0.05, 0]
ScenarioSeries == <<0, 100, 400, 1800, 400, 100, 0, 100, 300, 100, 0>>

SmallSeries == UNION {[1..n -> Mags] : n \in 0..MaxLen}

Fill(f, n) == [k \in 1..n |-> f]

\* up to k spikes over a floor f, each after a gap of floor values
RECURSIVE Spiked(_, _)
Spiked(f, k) ==
    IF k = 0 THEN {<<>>}
    ELSE LET shorter == Spiked(f, k - 1)
         IN  shorter \cup {b \o Fill(f, g) \o <<v>> :
                              b \in shorter, g \in Gaps, v \in SpikeMags}

GapSeries == UNION {{b \o Fill(f, t) : b \in Spiked(f, MaxSpikes), t \in Gaps} :
                       f \in Floors}

\* a comb: spikes at the odd bins 1, 3, 5, ... over a floor of zeros, so
\* that with minDistance = 1 every spike is a strict maximum of its window
CombMags == {200, 400, 1800}       \* 0.1, 0.2, 0.9

Comb(vs) == [k \in 1..(2 * Len(vs) + 1) |-> IF k % 2 = 0 THEN vs[k \div 2] ELSE 0]

CombSeries == UNION {{Comb(vs) : vs \in [1..n -> CombMags]} : n \in 1..MaxComb}

\* short series of integers of either sign
IntSeries == UNION {[1..n -> {-3, 0, 2}] : n \in 1..3}

\* up to two spikes over a floor, and the short series
ReuseSeries ==
    UNION {{b \o Fill(f, t) : b \in Spiked(f, 2), t \in Gaps} : f \in Floors}
        \cup IntSeries

\* short series that stay below the 0.001 floor of yRange (0 and 0.0005)
FaintSeries == UNION {[1..n -> {0, 1}] : n \in 1..3}

SamplingContexts == {<<SAMPLING_FREQ, FFT_SIZE>>, <<120000, 36>>}

Rects == {[width |-> 1200, height |-> 300, padding |-> AreaPadding],
          [width |-> 1200, height |-> 300, padding |-> LinePadding],
          [width |-> 100, height |-> 300, padding |-> LinePadding],
          [width |-> 90, height |-> 300, padding |-> AreaPadding],
          [width |-> 1200, height |-> 40, padding |-> LinePadding]}

\* 2056 bins, silent but for one spike at bin 2049 (above the Nyquist bin)
LongSeries == [k \in 1..2056 |-> IF k = 2050 THEN 1800 ELSE 0]

NoRect == [width |-> 0, height |-> 0,
           padding |-> [top |-> 0, right |-> 0, bottom |-> 0, left |-> 0]]

NoStats == calculateStats(<<>>, SAMPLING_FREQ, FFT_SIZE)

---------------------------------------------------------------------------
(* State machines *)

Channels == {"Channel1", "Channel2", "Channel3", "Channel4"}

\* the useState initial values of the dashboard
InitDashboardState ==
    /\ vibrationData = [c \in Channels |-> <<>>]
    /\ loading = FALSE
    /\ lastUpdate = <<>>
    /\ error = <<>>
    /\ fetches = <<>>
    /\ interval = "none"
    /\ lastSettled = 0

InitOutputs ==
    /\ InitDashboardState
    /\ cardPeaks = <<>>
    /\ rect = NoRect
    /\ peaks = <<>>
    /\ stats = NoStats
    /\ path = <<>>
    /\ areaPath = <<>>
    /\ linePath = <<>>
    /\ markers = <<>>
    /\ pc = "ready"

\* the chart component is given a series and the sampling constants
Init ==
    /\ data \in GapSeries \cup FaintSeries \cup {LongSeries}
    /\ \E c \in SamplingContexts : samplingFreq = c[1] /\ fftSize = c[2]
    /\ minHeight = DefaultMinHeight
    /\ minDistance = DefaultMinDistance
    /\ InitOutputs

\* findPeaks is given a series, a height floor and a window half-width
InitPeaks ==
    /\ data \in SmallSeries \cup CombSeries \cup {ScenarioSeries}
    /\ \E c \in SamplingContexts : samplingFreq = c[1] /\ fftSize = c[2]
    /\ minHeight \in MinHeights
    /\ minDistance \in 1..MaxMinDistance
    /\ InitOutputs

\* generatePath is given a series and a canvas
InitPath ==
    /\ data \in SmallSeries
    /\ \E c \in SamplingContexts : samplingFreq = c[1] /\ fftSize = c[2]
    /\ minHeight = DefaultMinHeight
    /\ minDistance = DefaultMinDistance
    /\ InitOutputs

\* ChannelChart({data, samplingFreq, fftSize}) renders
Render ==
    /\ pc = "ready"
    /\ stats' = calculateStats(data, samplingFreq, fftSize)
    /\ IF Len(data) > 0
       THEN /\ areaPath' = generatePath(data, samplingFreq, fftSize, 1200, 300, AreaPadding)
            /\ linePath' = generatePath(data, samplingFreq, fftSize, 1200, 300, LinePadding)
            /\ markers' = peakMarkers(stats'.peaks, data)
       ELSE /\ areaPath' = <<>>
            /\ linePath' = <<>>
            /\ markers' = <<>>
    /\ pc' = "rendered"
    /\ UNCHANGED <<data, samplingFreq, fftSize, minHeight, minDistance, rect, peaks, path, cardPeaks>>
    /\ UNCHANGED dashVars

\* the inner ChannelChart({data}) of VibrationChart renders
RenderLegacy ==
    /\ pc = "ready"
    /\ stats' = calculateStats(data, LegacySamplingFreq, LegacyFftSize)
    /\ IF Len(data) > 0
       THEN /\ areaPath' = legacyGeneratePath(data)
            /\ linePath' = legacyGeneratePath(data)
            /\ markers' = legacyPeakMarkers(stats'.peaks, data)
       ELSE /\ areaPath' = <<>>
            /\ linePath' = <<>>
            /\ markers' = <<>>
    /\ pc' = "renderedLegacy"
    /\ UNCHANGED <<data, samplingFreq, fftSize, minHeight, minDistance, rect, peaks, path, cardPeaks>>
    /\ UNCHANGED dashVars

\* the dashboard renders one channel: its PeakCard gets the dashboard's own
\* peak list and its ChannelChart gets the array and the dashboard's
\* sampling constants as props
RenderDashboardChannel ==
    /\ pc = "ready"
    /\ samplingFreq = SAMPLING_FREQ
    /\ fftSize = FFT_SIZE
    /\ cardPeaks' = dashboardCalculateStats(data).peaks
    /\ stats' = calculateStats(data, samplingFreq, fftSize)
    /\ IF Len(data) > 0
       THEN /\ areaPath' = generatePath(data, samplingFreq, fftSize, 1200, 300, AreaPadding)
            /\ linePath' = generatePath(data, samplingFreq, fftSize, 1200, 300, LinePadding)
            /\ markers' = peakMarkers(stats'.peaks, data)
       ELSE /\ areaPath' = <<>>
            /\ linePath' = <<>>
            /\ markers' = <<>>
    /\ pc' = "dashboardChannel"
    /\ UNCHANGED <<data, samplingFreq, fftSize, minHeight, minDistance, rect, peaks, path>>
    /\ UNCHANGED dashVars

\* findPeaks(magnitudeData, minHeight, minDistance) of the chart component
CallFindPeaks ==
    /\ pc = "ready"
    /\ peaks' = findPeaks(data, minHeight, minDistance, samplingFreq, fftSize)
    /\ pc' = "findPeaks"
    /\ UNCHANGED <<data, samplingFreq, fftSize, minHeight, minDistance, rect, stats,
                   path, areaPath, linePath, markers, cardPeaks>>
    /\ UNCHANGED dashVars

\* findPeaks(magnitudeData, minHeight, minDistance) of the dashboard
CallFindPeaksDashboard ==
    /\ pc = "ready"
    /\ peaks' = dashboardFindPeaks(data, minHeight, minDistance)
    /\ pc' = "findPeaksDashboard"
    /\ UNCHANGED <<data, samplingFreq, fftSize, minHeight, minDistance, rect, stats,
                   path, areaPath, linePath, markers, cardPeaks>>
    /\ UNCHANGED dashVars

\* generatePath(width, height, padding)
CallGeneratePath ==
    /\ pc = "ready"
    /\ \E r \in Rects :
          /\ rect' = r
          /\ path' = generatePath(data, samplingFreq, fftSize, r.width, r.height, r.padding)
    /\ pc' = "generatePath"
    /\ UNCHANGED <<data, samplingFreq, fftSize, minHeight, minDistance, peaks, stats,
                   areaPath, linePath, markers, cardPeaks>>
    /\ UNCHANGED dashVars

\* one array is handed to calculateStats and generatePath, in any order and
\* any number of times; here pc is the sequence of the calls made so far
InitCalls ==
    /\ data \in ReuseSeries
    /\ \E c \in SamplingContexts : samplingFreq = c[1] /\ fftSize = c[2]
    /\ minHeight = DefaultMinHeight
    /\ minDistance = DefaultMinDistance
    /\ InitDashboardState
    /\ cardPeaks = <<>>
    /\ rect = NoRect
    /\ peaks = <<>>
    /\ stats = NoStats
    /\ path = <<>>
    /\ areaPath = <<>>
    /\ linePath = <<>>
    /\ markers = <<>>
    /\ pc = <<>>

\* calculateStats(data)
CallCalculateStats ==
    /\ Len(pc) < MaxCalls
    /\ stats' = calculateStats(data, samplingFreq, fftSize)
    /\ data' = calculateStatsHeap(NewHeap(data), samplingFreq, fftSize).magnitudeData
    /\ pc' = Append(pc, "calculateStats")
    /\ UNCHANGED <<samplingFreq, fftSize, minHeight, minDistance, rect, peaks, path,
                   areaPath, linePath, markers, cardPeaks>>
    /\ UNCHANGED dashVars

\* generatePath(1200, 300, padding) on the same array
CallGeneratePathAgain ==
    /\ Len(pc) < MaxCalls
    /\ \E padding \in {AreaPadding, LinePadding} :
          /\ rect' = [width |-> 1200, height |-> 300, padding |-> padding]
          /\ path' = generatePath(data, samplingFreq, fftSize, 1200, 300, padding)
          /\ data' = generatePathHeap(NewHeap(data), samplingFreq, fftSize,
                                      1200, 300, padding).magnitudeData
    /\ pc' = Append(pc, "generatePath")
    /\ UNCHANGED <<samplingFreq, fftSize, minHeight, minDistance, peaks, stats,
                   areaPath, linePath, markers, cardPeaks>>
    /\ UNCHANGED dashVars

NextCalls == CallCalculateStats \/ CallGeneratePathAgain

SpecCalls == InitCalls /\ [][NextCalls]_vars

---------------------------------------------------------------------------
(* The dashboard's data fetch (fetchVibrationData and the refresh timer)  *)
(*                                                                        *)
(* An optional value (a property that may be undefined) is a sequence of  *)
(* no element or of the one value.  A fetch is a record of its position   *)
(* and of what the server answered; its index in `fetches` is the order   *)
(* in which it was started.                                               *)

Keys == [Channel1 |-> "V1", Channel2 |-> "V2", Channel3 |-> "V3", Channel4 |-> "V4"]

NoBody == [parsed |-> FALSE, success |-> FALSE, data |-> <<>>, message |-> <<>>,
           timestamp |-> <<>>]

DataA == [V1 |-> <<(<<200, 0>>)>>, V2 |-> <<(<<0>>)>>, V3 |-> <<(<<>>)>>,
          V4 |-> <<(<<400>>)>>]

DataB == [V1 |-> <<(<<0, 400>>)>>, V2 |-> <<>>, V3 |-> <<(<<200>>)>>, V4 |-> <<>>]

\* what response.json() may resolve to
Bodies ==
    { [parsed |-> TRUE, success |-> TRUE, data |-> <<DataA>>, message |-> <<>>,
       timestamp |-> <<1000>>],
      [parsed |-> TRUE, success |-> TRUE, data |-> <<DataB>>, message |-> <<>>,
       timestamp |-> <<>>],
      [parsed |-> TRUE, success |-> FALSE, data |-> <<DataA>>,
       message |-> <<"No data available">>, timestamp |-> <<1000>>],
      [parsed |-> TRUE, success |-> TRUE, data |-> <<>>, message |-> <<"">>,
       timestamp |-> <<>>] }

\* HTTP statuses of a response; response.ok is status in 200..299
Statuses == {200, 500}

responseOk(status) == status >= 200 /\ status <= 299

NetworkErrorMessage == <<"Failed to fetch">>
JsonErrorMessage == <<"Unexpected token < in JSON at position 0">>

\* `HTTP error! status: ${response.status}`
httpErrorMessage(status) == <<"HTTP error! status: ", status>>

\* data.message || 'Failed to fetch data'
bodyErrorMessage(body) ==
    IF body.message = <<>> \/ body.message[1] = "" THEN <<"Failed to fetch data">>
    ELSE <<body.message[1]>>

\* data.data.Vn || []
orEmpty(field) == IF field = <<>> THEN <<>> ELSE field[1]

\* { Channel1: data.data.V1 || [], ..., Channel4: data.data.V4 || [] }
channelsOf(d) == [c \in Channels |-> orEmpty(d[Keys[c]])]

\* new Date(data.timestamp); an undefined timestamp gives an invalid date
dateOf(timestamp) ==
    IF timestamp = <<>> THEN [valid |-> FALSE, time |-> 0]
    ELSE [valid |-> TRUE, time |-> timestamp[1]]

\* data.success && data.data
bodyAccepted(body) == body.success /\ body.data # <<>>

NewFetch == [phase |-> "fetching", cause |-> "none", status |-> 0, body |-> NoBody]

InFlight(f) == f.phase \in {"fetching", "parsing"}

\* the component's state as one record
State == [vibrationData |-> vibrationData, loading |-> loading,
          lastUpdate |-> lastUpdate, error |-> error]

\* setLoading(true); setError(null)
onStart(st) == [st EXCEPT !.loading = TRUE, !.error = <<>>]

\* setVibrationData({...}); setLastUpdate(new Date(...)); finally setLoading(false)
onSuccess(st, body) ==
    [st EXCEPT !.vibrationData = channelsOf(body.data[1]),
               !.lastUpdate = <<dateOf(body.timestamp)>>,
               !.loading = FALSE]

\* onCatch also resetting the channels to their initial empty arrays
onCatch_ClearsData(st, message) ==
    [st EXCEPT !.vibrationData = [c \in Channels |-> <<>>],
               !.error = <<message>>, !.loading = FALSE]

\* catch: setError(err.message); finally setLoading(false)
onCatch(st, message) == [st EXCEPT !.error = <<message>>, !.loading = FALSE]

\* the state setters act while the component is mounted; after the unmount
\* there is no component state to update
Commit(st) ==
    IF interval = "cleared"
    THEN UNCHANGED <<vibrationData, loading, lastUpdate, error>>
    ELSE /\ vibrationData' = st.vibrationData
         /\ loading' = st.loading
         /\ lastUpdate' = st.lastUpdate
         /\ error' = st.error

\* the dashboard before its effect has run; no chart call is modelled
InitDashboard ==
    /\ data = <<>>
    /\ samplingFreq = SAMPLING_FREQ
    /\ fftSize = FFT_SIZE
    /\ minHeight = DefaultMinHeight
    /\ minDistance = DefaultMinDistance
    /\ InitOutputs

\* fetchVibrationData() up to its first await
StartFetch ==
    /\ fetches' = Append(fetches, NewFetch)
    /\ Commit(onStart(State))
    /\ UNCHANGED lastSettled

\* useEffect: fetchVibrationData(); setInterval(fetchVibrationData, 4000)
Mount ==
    /\ interval = "none"
    /\ interval' = "running"
    /\ StartFetch
    /\ UNCHANGED chartVars

\* the interval timer fires, whether or not earlier fetches have completed
Tick ==
    /\ interval = "running"
    /\ Len(fetches) < MaxFetches
    /\ StartFetch
    /\ UNCHANGED <<interval, chartVars>>

\* the effect's cleanup: clearInterval(interval)
Unmount ==
    /\ interval = "running"
    /\ interval' = "cleared"
    /\ UNCHANGED <<vibrationData, loading, lastUpdate, error, fetches, lastSettled,
                   chartVars>>

\* await fetch(...) rejects: network failure
FetchRejects ==
    \E id \in 1..Len(fetches) :
        /\ fetches[id].phase = "fetching"
        /\ fetches' = [fetches EXCEPT ![id].phase = "failed", ![id].cause = "rejected"]
        /\ Commit(onCatch(State, NetworkErrorMessage))
        /\ lastSettled' = id
        /\ UNCHANGED <<interval, chartVars>>

\* await fetch(...) resolves: a non-OK response throws, an OK one goes on
\* to response.json()
ResponseArrives ==
    \E id \in 1..Len(fetches), status \in Statuses :
        /\ fetches[id].phase = "fetching"
        /\ IF responseOk(status)
           THEN /\ fetches' = [fetches EXCEPT ![id].phase = "parsing",
                                              ![id].status = status]
                /\ UNCHANGED <<vibrationData, loading, lastUpdate, error, lastSettled>>
           ELSE /\ fetches' = [fetches EXCEPT ![id].phase = "failed",
                                              ![id].cause = "status",
                                              ![id].status = status]
                /\ Commit(onCatch(State, httpErrorMessage(status)))
                /\ lastSettled' = id
        /\ UNCHANGED <<interval, chartVars>>

\* await response.json() rejects: the body is not JSON
JsonRejects ==
    \E id \in 1..Len(fetches) :
        /\ fetches[id].phase = "parsing"
        /\ fetches' = [fetches EXCEPT ![id].phase = "failed", ![id].cause = "json"]
        /\ Commit(onCatch(State, JsonErrorMessage))
        /\ lastSettled' = id
        /\ UNCHANGED <<interval, chartVars>>

\* await response.json() resolves
JsonResolves ==
    \E id \in 1..Len(fetches), body \in Bodies :
        /\ fetches[id].phase = "parsing"
        /\ IF bodyAccepted(body)
           THEN /\ fetches' = [fetches EXCEPT ![id].phase = "ok", ![id].body = body]
                /\ Commit(onSuccess(State, body))
                /\ lastSettled' = id
           ELSE /\ fetches' = [fetches EXCEPT ![id].phase = "failed",
                                              ![id].cause = "body",
                                              ![id].body = body]
                /\ Commit(onCatch(State, bodyErrorMessage(body)))
                /\ lastSettled' = id
        /\ UNCHANGED <<interval, chartVars>>

NextDashboard ==
    \/ Mount
    \/ Tick
    \/ Unmount
    \/ FetchRejects
    \/ ResponseArrives
    \/ JsonRejects
    \/ JsonResolves

SpecDashboard == InitDashboard /\ [][NextDashboard]_vars

Next == Render \/ RenderLegacy \/ RenderDashboardChannel

NextPeaks == CallFindPeaks \/ CallFindPeaksDashboard

NextPath == CallGeneratePath

Spec == Init /\ [][Next]_vars

SpecPeaks == InitPeaks /\ [][NextPeaks]_vars

SpecPath == InitPath /\ [][NextPath]_vars

---------------------------------------------------------------------------
(* Properties of findPeaks, under SpecPeaks *)

PeaksCalled == pc \in {"findPeaks", "findPeaksDashboard"}

BinIndices(ps) == [k \in 1..Len(ps) |-> ps[k].binIndex]

BinSet(ps) == {ps[k].binIndex : k \in 1..Len(ps)}

\* bin i is eligible, reaches the height floor and is strictly above every
\* other bin of its window
Qualifies(s, h, d, i) ==
    /\ d <= i
    /\ i < Len(s) - d
    /\ At(s, i) >= h
    /\ \A j \in (i - d)..(i + d) : j = i \/ At(s, j) < At(s, i)

Qualifying(s, h, d) == {i \in 0..(Len(s) - 1) : Qualifies(s, h, d, i)}

ScenarioCall ==
    PeaksCalled /\ data = ScenarioSeries /\ minDistance = 2 /\ minHeight = DefaultMinHeight

\* C1 as stated: for the scenario series with minDistance = 2 and
\* minHeight = 0.1, findPeaks reports exactly one peak, at bin 3.
C1_ScenarioOnePeak ==
    ScenarioCall => BinIndices(peaks) = <<3>>

\* C1 as amended: for the scenario series with minDistance = 2 and
\* minHeight = 0.1 the eligible bins are 2..8 and findPeaks reports exactly
\* two peaks, bin 3 (0.9) first and bin 8 (0.15) second.
C1_ScenarioTwoPeaks ==
    ScenarioCall =>
        /\ {i \in 0..(Len(data) - 1) : minDistance <= i /\ i < Len(data) - minDistance} = 2..8
        /\ BinIndices(peaks) = <<3, 8>>
        /\ peaks[1].magnitude = 1800
        /\ peaks[2].magnitude = 300

C1_Witness == ScenarioCall /\ pc = "findPeaks" /\ Len(peaks) = 2

CalledSamplingFreq == IF pc = "findPeaks" THEN samplingFreq ELSE SAMPLING_FREQ

CalledFftSize == IF pc = "findPeaks" THEN fftSize ELSE FFT_SIZE

\* C2: every reported peak is at an eligible bin that reaches minHeight and
\* is strictly above every other bin within minDistance; its magnitude is
\* the bin's value and its frequency is binIndex * samplingFrequency /
\* fftSize; and when at most 5 bins qualify every one of them is reported.
C2_PeaksAreTheQualifyingBins ==
    PeaksCalled =>
        /\ \A k \in 1..Len(peaks) :
              LET p == peaks[k] IN
              /\ Qualifies(data, minHeight, minDistance, p.binIndex)
              /\ p.magnitude = At(data, p.binIndex)
              /\ IsFinite(p.frequency)
              /\ p.frequency[1] * CalledFftSize
                     = p.binIndex * CalledSamplingFreq * p.frequency[2]
        /\ Cardinality(Qualifying(data, minHeight, minDistance)) <= TopPeaks
              => Qualifying(data, minHeight, minDistance) \subseteq BinSet(peaks)

C2_Witness ==
    /\ PeaksCalled
    /\ Len(peaks) >= 2
    /\ \E k \in 1..Len(peaks) : peaks[k].magnitude = minHeight
    /\ \E i \in minDistance..(Len(data) - minDistance - 1) :
          At(data, i) >= minHeight /\ i \notin BinSet(peaks)

\* C9: a series no longer than 2 * minDistance (the empty one included)
\* has no peak, whatever minHeight is.
C9_ShortSeriesNoPeaks ==
    PeaksCalled /\ Len(data) <= 2 * minDistance => peaks = <<>>

\* a short series with a bin strictly above all its existing neighbours
C9_Witness ==
    /\ PeaksCalled
    /\ Len(data) = 2 * minDistance
    /\ peaks = <<>>
    /\ \E i \in 0..(Len(data) - 1) :
          /\ At(data, i) >= minHeight
          /\ At(data, i) > 0
          /\ \A j \in 0..(Len(data) - 1) : j = i \/ At(data, j) < At(data, i)

\* bins a..b hold one value, at least minHeight, over more than
\* 2 * minDistance + 1 consecutive bins
Plateau(s, h, d, a, b) ==
    /\ 0 <= a
    /\ b < Len(s)
    /\ b - a + 1 > 2 * d + 1
    /\ At(s, a) >= h
    /\ \A j \in a..b : At(s, j) = At(s, a)

\* C10: no bin inside such a plateau is reported as a peak, whatever the
\* values outside the plateau are.
C10_PlateauNoPeak ==
    PeaksCalled =>
        \A a \in 0..(Len(data) - 1) : \A b \in a..(Len(data) - 1) :
            Plateau(data, minHeight, minDistance, a, b)
                => BinSet(peaks) \cap (a..b) = {}

\* a plateau above its surroundings, with an eligible bin in it
C10_Witness ==
    /\ PeaksCalled
    /\ \E a \in 0..(Len(data) - 1) : \E b \in a..(Len(data) - 1) :
          /\ Plateau(data, minHeight, minDistance, a, b)
          /\ At(data, a) > 0
          /\ a > 0
          /\ \A j \in 0..(Len(data) - 1) : j \in a..b \/ At(data, j) < At(data, a)
          /\ \E i \in a..b : minDistance <= i /\ i < Len(data) - minDistance

---------------------------------------------------------------------------
(* Properties of the rendered chart, under Spec *)

Rendered == pc \in {"rendered", "renderedLegacy"}

RenderedMaxFreq == IF pc = "rendered" THEN maxFreq ELSE LegacyMaxFreq

RenderedSamplingFreq == IF pc = "rendered" THEN samplingFreq ELSE LegacySamplingFreq

RenderedFftSize == IF pc = "rendered" THEN fftSize ELSE LegacyFftSize

MarkerPeaks == [k \in 1..Len(markers) |-> markers[k].peak]

\* frequency(i) <= ceiling, on the integers
BinWithin(i, sf, fft, mf) == i * sf <= mf * fft

PeakWithin(p, mf) == p.frequency[1] <= mf * p.frequency[2]

\* C3 as stated: every marker a chart draws is at the (x, y) the chart's
\* line path has for the marker's bin.
C3_MarkersOnTheLine ==
    Rendered =>
        \A k \in 1..Len(markers) :
            LET i == markers[k].peak.binIndex IN
            /\ i + 1 <= Len(linePath)
            /\ markers[k].x = linePath[i + 1].x
            /\ markers[k].y = linePath[i + 1].y

\* C4: when exactly one bin i of the series is an eligible strict maximum
\* of its window reaching minHeight, the peak list of calculateStats is [i].
C4_SoleMaximumSolePeak ==
    Rendered =>
        LET q == Qualifying(data, DefaultMinHeight, DefaultMinDistance)
        IN  \A i \in q : q = {i} => BinIndices(stats.peaks) = <<i>>

\* one qualifying bin among other spikes that do not qualify
C4_Witness ==
    /\ pc = "rendered"
    /\ Cardinality(Qualifying(data, DefaultMinHeight, DefaultMinDistance)) = 1
    /\ Len(stats.peaks) = 1
    /\ \E j \in DefaultMinDistance..(Len(data) - DefaultMinDistance - 1) :
          /\ j \notin BinSet(stats.peaks)
          /\ At(data, j) > At(data, 0)
          /\ At(data, j) < DefaultMinHeight

IsConstant(s) == Len(s) > 0 /\ \A k \in 1..Len(s) : s[k] = s[1]

LineTop == IF pc = "rendered" THEN LinePadding.top ELSE LegacyPadding.top

LineBottom ==
    IF pc = "rendered" THEN 300 - LinePadding.bottom
    ELSE LegacyHeight - LegacyPadding.bottom

AreaTop == IF pc = "rendered" THEN AreaPadding.top ELSE LegacyPadding.top

AreaBottom ==
    IF pc = "rendered" THEN 300 - AreaPadding.bottom
    ELSE LegacyHeight - LegacyPadding.bottom

AllDefined(ps) == \A k \in 1..Len(ps) : IsFinite(ps[k].x) /\ IsFinite(ps[k].y)

AllAtY(ps, y) == \A k \in 1..Len(ps) : ps[k].y = RInt(y)

\* C5 as stated: for a constant series of any value every emitted point is
\* at the bottom of the plot, y = padding.top + plotHeight, and every
\* coordinate is defined.
C5_ConstantAtBottom ==
    Rendered /\ IsConstant(data) =>
        /\ AllAtY(linePath, LineBottom) /\ AllAtY(areaPath, AreaBottom)
        /\ AllDefined(linePath) /\ AllDefined(areaPath)

\* C5 as amended: for a series of zeros every emitted point is at the
\* bottom of the plot, y = padding.top + plotHeight; for a constant series
\* of a value >= 0.001 every emitted point is at the top, y = padding.top;
\* for every constant series every emitted coordinate is defined.
C5_ZerosAtBottom ==
    Rendered /\ IsConstant(data) =>
        /\ data[1] = 0 => AllAtY(linePath, LineBottom) /\ AllAtY(areaPath, AreaBottom)
        /\ data[1] >= YFloor => AllAtY(linePath, LineTop) /\ AllAtY(areaPath, AreaTop)
        /\ AllDefined(linePath) /\ AllDefined(areaPath)

C5_Witness ==
    /\ pc = "rendered"
    /\ IsConstant(data)
    /\ data[1] = 0
    /\ Len(linePath) = Len(data)
    /\ Len(data) >= 2

XOfBin(i, left, plotWidth) ==
    xOf(binToFrequency(i, RenderedSamplingFreq, RenderedFftSize), left, plotWidth,
        RenderedMaxFreq)

LineLeft == IF pc = "rendered" THEN LinePadding.left ELSE LegacyPadding.left

LinePlotWidth ==
    IF pc = "rendered" THEN 1200 - LinePadding.left - LinePadding.right
    ELSE LegacyWidth - LegacyPadding.left - LegacyPadding.right

\* C8 as stated: the path has exactly one point for each bin whose
\* frequency is <= maxFreq, in ascending bin order, and no point for a bin
\* whose frequency is > maxFreq.
C8_PathClippedAtMaxFreq ==
    Rendered /\ Len(data) > 0 =>
        LET kept == {i \in 0..(Len(data) - 1) :
                        BinWithin(i, RenderedSamplingFreq, RenderedFftSize, RenderedMaxFreq)}
        IN  /\ Len(linePath) = Cardinality(kept)
            /\ \A k \in 1..Len(linePath) :
                  /\ (k - 1) \in kept
                  /\ linePath[k].x = XOfBin(k - 1, LineLeft, LinePlotWidth)

---------------------------------------------------------------------------
(* Properties of generatePath, under SpecPath *)

\* C6 as stated: when the plot width or the plot height is not positive the
\* path mapping returns an empty sequence.
C6_UnplottableIsEmpty ==
    pc = "generatePath"
      /\ (\/ rect.width - rect.padding.left - rect.padding.right <= 0
          \/ rect.height - rect.padding.top - rect.padding.bottom <= 0)
      => path = <<>>

---------------------------------------------------------------------------
(* Ranking of the peaks, under SpecPeaks *)

QualifyingNow == Qualifying(data, minHeight, minDistance)

\* C11: the peak list has at most 5 entries, is in non-increasing order of
\* magnitude, and no qualifying bin left out of it is strictly greater
\* than a reported peak.
C11_TopFiveByMagnitude ==
    PeaksCalled =>
        /\ Len(peaks) <= 5
        /\ \A k \in 1..(Len(peaks) - 1) : peaks[k].magnitude >= peaks[k + 1].magnitude
        /\ \A i \in QualifyingNow \ BinSet(peaks) :
              \A k \in 1..Len(peaks) : At(data, i) <= peaks[k].magnitude

\* six bins qualify, five are reported and the one left out is the weakest
C11_Witness ==
    /\ PeaksCalled
    /\ Cardinality(QualifyingNow) > 5
    /\ Len(peaks) = 5
    /\ peaks[1].magnitude > peaks[5].magnitude
    /\ \E i \in QualifyingNow \ BinSet(peaks) : At(data, i) < peaks[5].magnitude
    /\ \E k \in 1..4 : peaks[k].binIndex > peaks[k + 1].binIndex

\* C17: of two reported peaks of equal magnitude the one at the lower bin
\* comes first, and a qualifying bin left out by the truncation to 5 lies
\* above every reported peak of its magnitude.
C17_TiesByAscendingBin ==
    PeaksCalled =>
        /\ \A k \in 1..Len(peaks) : \A l \in (k + 1)..Len(peaks) :
              peaks[k].magnitude = peaks[l].magnitude
                  => peaks[k].binIndex < peaks[l].binIndex
        /\ \A i \in QualifyingNow \ BinSet(peaks) :
              \A k \in 1..Len(peaks) :
                  peaks[k].magnitude = At(data, i) => peaks[k].binIndex < i

\* a tie inside the list and a tie cut by the truncation
C17_Witness ==
    /\ PeaksCalled
    /\ Len(peaks) = 5
    /\ peaks[1].magnitude = peaks[2].magnitude
    /\ peaks[2].magnitude > peaks[3].magnitude
    /\ \E i \in QualifyingNow \ BinSet(peaks) : At(data, i) = peaks[5].magnitude

---------------------------------------------------------------------------
(* Statistics and markers agree, under Spec *)

SamePeak(p, q) ==
    /\ p.binIndex = q.binIndex
    /\ p.frequency = q.frequency
    /\ p.magnitude = q.magnitude

\* C15: in a dashboard render the chart's own peak list equals, element by
\* element, the peak list the dashboard computes for the channel's peak
\* card, and every marker the chart draws has the binIndex, frequency and
\* magnitude of an entry of the card's list.
C15_CardAndChartPeaksAgree ==
    pc = "dashboardChannel" =>
        /\ Len(stats.peaks) = Len(cardPeaks)
        /\ \A k \in 1..Len(cardPeaks) : SamePeak(stats.peaks[k], cardPeaks[k])
        /\ \A m \in 1..Len(markers) :
              \E k \in 1..Len(cardPeaks) : SamePeak(markers[m].peak, cardPeaks[k])

\* four peaks on the card, three of them marked
C15_Witness ==
    /\ pc = "dashboardChannel"
    /\ Len(cardPeaks) = 4
    /\ Len(markers) = 3
    /\ cardPeaks[1].magnitude > cardPeaks[4].magnitude

---------------------------------------------------------------------------
(* Properties of calls on one array, under SpecCalls *)

Called(name) == \E k \in 1..Len(pc) : pc[k] = name

\* C12: for the empty series calculateStats returns min = max = avg =
\* rms = 0 and an empty peak list, and the path mapping returns no point.
C12_EmptySeriesZeroStruct ==
    data = <<>> =>
        /\ Called("calculateStats") =>
              /\ stats.min = RInt(0)
              /\ stats.max = RInt(0)
              /\ stats.avg = RInt(0)
              /\ stats.rmsSquared = RInt(0)
              /\ stats.peaks = <<>>
        /\ Called("generatePath") => path = <<>>

C12_Witness ==
    /\ data = <<>>
    /\ Called("calculateStats")
    /\ Called("generatePath")
    /\ stats.peaks = <<>>
    /\ path = <<>>

\* C13: no call of calculateStats (findPeaks included) or of the path
\* mapping changes the array it is given: same length, same element at
\* every index.
C13_InputNeverMutated == [][data' = data]_vars

\* statistics, then a path, then statistics again on an array whose two
\* peaks the ranking had to exchange
C13_Witness ==
    /\ pc = <<"calculateStats", "generatePath", "calculateStats">>
    /\ Len(stats.peaks) = 2
    /\ stats.peaks[1].binIndex > stats.peaks[2].binIndex
    /\ Len(path) = Len(data)

RECURSIVE SumOf(_)
SumOf(s) == IF s = <<>> THEN 0 ELSE Head(s) + SumOf(Tail(s))

RECURSIVE SumOfSquares(_)
SumOfSquares(s) == IF s = <<>> THEN 0 ELSE Head(s) * Head(s) + SumOfSquares(Tail(s))

\* C14: for a non-empty series of integers min is the smallest element,
\* max the largest, avg * length the sum of the elements and rms^2 * length
\* the sum of their squares; hence min <= avg <= max and rms^2 >= 0.
C14_StatsAreExtremaAndMeans ==
    Called("calculateStats") /\ Len(data) > 0 =>
        LET n == Len(data) IN
        /\ IsFinite(stats.min) /\ IsFinite(stats.max)
        /\ IsFinite(stats.avg) /\ IsFinite(stats.rmsSquared)
        /\ stats.min[2] = 1 /\ stats.max[2] = 1
        /\ \E k \in 1..n : data[k] = stats.min[1]
        /\ \A k \in 1..n : stats.min[1] <= data[k]
        /\ \E k \in 1..n : data[k] = stats.max[1]
        /\ \A k \in 1..n : stats.max[1] >= data[k]
        /\ stats.avg[1] * n = SumOf(data) * stats.avg[2]
        /\ stats.rmsSquared[1] * n = SumOfSquares(data) * stats.rmsSquared[2]
        /\ stats.min[1] * stats.avg[2] <= stats.avg[1]
        /\ stats.avg[1] <= stats.max[1] * stats.avg[2]
        /\ stats.rmsSquared[1] >= 0

\* a series of both signs whose mean is not an integer
C14_Witness ==
    /\ Called("calculateStats")
    /\ Len(data) = 3
    /\ stats.min[1] < 0
    /\ stats.max[1] > 0
    /\ stats.avg[2] > 1
    /\ stats.rmsSquared[2] > 1

---------------------------------------------------------------------------
(* The vertical extent of the drawn paths, under Spec *)

\* y lies in [lo, hi]
YWithin(y, lo, hi) ==
    /\ IsFinite(y)
    /\ ~RGreater(RInt(lo), y)
    /\ ~RGreater(y, RInt(hi))

\* The frequency filter drops a suffix of the bins, so point k of a path is
\* bin k - 1.  `first` gives for every magnitude the first point carrying it.
PathWithinPlot(ps, top, bottom) ==
    LET n == Len(ps)
        values == {data[k] : k \in 1..n}
        first == [v \in values |-> CHOOSE k \in 1..n :
                     data[k] = v /\ \A j \in 1..(k - 1) : data[j] # v]
        yMax == MaxOf(data)
    IN  /\ \A k \in 1..n : YWithin(ps[k].y, top, bottom)
        /\ \A k \in 1..n : data[k] = 0 => ps[k].y = RInt(bottom)
        /\ yMax >= YFloor => \A k \in 1..n : data[k] = yMax => ps[k].y = RInt(top)
        /\ \A k \in 1..n : ps[k].y = ps[first[data[k]]].y
        /\ \A v, w \in values : v > w => ~RGreater(ps[first[v]].y, ps[first[w]].y)

\* C16: for a non-negative series every point of a drawn path has
\* padding.top <= y <= padding.top + plotHeight; magnitude 0 is drawn at
\* the bottom edge; the largest magnitude is drawn at padding.top when it
\* is at least 0.001; a larger magnitude is never drawn at a larger y.
C16_PathWithinPlot ==
    Rendered /\ Len(data) > 0 =>
        /\ Len(linePath) <= Len(data) /\ Len(areaPath) <= Len(data)
        /\ PathWithinPlot(linePath, LineTop, LineBottom)
        /\ PathWithinPlot(areaPath, AreaTop, AreaBottom)

\* a drawn series with a zero, its maximum and a value strictly between
C16_Witness ==
    /\ Rendered
    /\ Len(linePath) > 0
    /\ data[1] = 0
    /\ linePath[1].y = RInt(LineBottom)
    /\ \E k \in 1..Len(linePath) :
          /\ data[k] > 0
          /\ data[k] < MaxOf(data)
          /\ RGreater(linePath[k].y, RInt(LineTop))
          /\ RGreater(RInt(LineBottom), linePath[k].y)
          /\ \E l \in 1..Len(linePath) :
                data[l] = MaxOf(data) /\ linePath[l].y = RInt(LineTop)

---------------------------------------------------------------------------
(* Properties of the dashboard's fetches, under SpecDashboard *)

FetchIds == 1..Len(fetches)

\* the message each cause of failure puts in err.message
ExpectedMessage(f) ==
    CASE f.cause = "rejected" -> <<"Failed to fetch">>
      [] f.cause = "status" -> <<"HTTP error! status: ", f.status>>
      [] f.cause = "json" -> <<"Unexpected token < in JSON at position 0">>
      [] f.cause = "body" ->
            IF f.body.message \in {<<>>, <<"">>} THEN <<"Failed to fetch data">>
            ELSE f.body.message

\* C18: the step in which a fetch fails (network exception, non-OK status,
\* unreadable body, body without success and data) leaves the four channel
\* arrays and lastUpdate unchanged and sets error to the failure message;
\* the channel arrays change only in a step in which a fetch succeeds.
C18_FailedFetchKeepsData ==
    [][/\ \A id \in FetchIds :
             /\ interval = "running"
             /\ InFlight(fetches[id])
             /\ fetches'[id].phase = "failed"
             => /\ vibrationData' = vibrationData
                /\ lastUpdate' = lastUpdate
                /\ error' = <<ExpectedMessage(fetches'[id])>>
       /\ vibrationData' # vibrationData \/ lastUpdate' # lastUpdate
             => \E id \in FetchIds :
                   InFlight(fetches[id]) /\ fetches'[id].phase = "ok"]_vars

\* a fetch has failed after an earlier one had brought data, and the data
\* and the date are still those of the earlier one
C18_Witness ==
    \E id, earlier \in FetchIds :
        /\ interval = "running"
        /\ fetches[id].phase = "failed"
        /\ fetches[id].cause = "body"
        /\ fetches[earlier].phase = "ok"
        /\ error = <<ExpectedMessage(fetches[id])>>
        /\ vibrationData["Channel1"] # <<>>
        /\ \A c \in Channels :
              vibrationData[c] = orEmpty(fetches[earlier].body.data[1][Keys[c]])
        /\ lastUpdate # <<>>
        /\ ~loading

\* the successful fetch that was started last
LastStartedOk ==
    CHOOSE id \in FetchIds :
        /\ fetches[id].phase = "ok"
        /\ \A other \in FetchIds : fetches[other].phase = "ok" => other <= id

\* C19 as stated: once no fetch is in flight, the four channel arrays are
\* those of the most recently started successful fetch.
C19_LatestStartedWins ==
    /\ interval = "running"
    /\ \A id \in FetchIds : ~InFlight(fetches[id])
    /\ \E id \in FetchIds : fetches[id].phase = "ok"
    => \A c \in Channels :
          vibrationData[c] = orEmpty(fetches[LastStartedOk].body.data[1][Keys[c]])

\* C20 as stated: while the dashboard is mounted, loading is true exactly
\* when at least one fetch is in flight.
C20_LoadingIffInFlight ==
    interval = "running" => (loading <=> \E id \in FetchIds : InFlight(fetches[id]))

\* C21 as stated: while the dashboard is mounted, whenever error is not
\* null the fetch that completed most recently is one that failed; after a
\* fetch completes successfully the displayed error is null.
C21_ErrorMeansLastFetchFailed ==
    interval = "running" /\ error # <<>> =>
        /\ lastSettled \in FetchIds
        /\ fetches[lastSettled].phase = "failed"

=============================================================================
